---- MODULE Spec2Model ----
(***************************************************************************)
(* Model of cmd/chat: error classification (isRetryableError), the retry   *)
(* loop (generateWithRetry) and the stream consumer                        *)
(* (reportStreamWithContext) with its cancellation watcher goroutine.      *)
(*                                                                         *)
(* One operation runs per behaviour: from the idle initial state a Start   *)
(* action picks the operation and its inputs (the remote's script of       *)
(* outcomes, the chunk sequence, the sink's failing write), after which    *)
(* the operation's steps and the environment (context cancellation) run.   *)
(***************************************************************************)
EXTENDS Integers, Sequences, FiniteSets, TLC

VARIABLES
    ctxDone,        \* ctx.Done() is closed (the context has been cancelled)
    ctxWhen,        \* where the operation was when cancel() was called ("wait":
                    \* in a wait whose timer had not fired, "elapsed": in a
                    \* wait whose timer had fired), "never" if not
    retryBaseDelay, \* package variable retryBaseDelay, in delay units
    cl_pc,          \* isRetryableError harness: "idle" | "called" | "done"
    cl_err,         \* the argument err of isRetryableError
    cl_out,         \* the value isRetryableError returned
    gw_pc,          \* generateWithRetry: "idle" | "call" | "wait" | "done"
    gw_script,      \* the remote's outcome for call 1, 2, 3 (the mock's generateFn)
    gw_attempt,     \* loop variable attempt
    gw_calls,       \* number of llm.Generate calls made so far
    gw_err,         \* local err: the error of the most recent llm.Generate call
    gw_waits,       \* the delays of the waits started so far, in order
    gw_ret,         \* the (message, error) pair generateWithRetry returned
    gw_timer,       \* the timer of time.After: "none" | "pending" | "fired"
    gw_ctxWaiter,   \* generateWithRetry is enqueued on ctx.Done()
    gw_sel,         \* the select of the wait: "none" | "poll" | "parked" | "timer" | "ctx"
    rs_pc,          \* reportStreamWithContext: "idle" | "recv" | "write" | "returned"
    rs_in,          \* the chunk sequence as handed to reportStreamWithContext
    rs_chunk,       \* local chunk of the drain loop
    rs_err,         \* local err of the drain loop (result of the last sr.Recv)
    rs_reads,       \* number of sr.Recv calls that have returned
    rs_ret,         \* the error reportStreamWithContext returned
    sr,             \* the StreamReader: remaining items, terminal, closed flag
    sink,           \* the writer: payloads passed to it and the write that fails
    doneClosed,     \* the channel done has been closed
    w_pc,           \* watcher goroutine: "none" | "select" | "exited"
    w_via,          \* the select case the watcher left by: "none" | "done" | "cancel"
    ge_pc,          \* generate: "idle" | "call" | "done"
    ge_outcome,     \* what the remote does on the call of llm.Generate
    ge_calls,       \* number of llm.Generate calls made by generate
    ge_ret,         \* the (message, error) pair generate returned
    st_pc,          \* stream: "idle" | "call" | "done"
    st_outcome,     \* what the remote does on the call of llm.Stream
    st_calls,       \* number of llm.Stream calls made by stream
    st_ret,         \* the (reader, error) pair stream returned
    lc_pc,          \* LoadModelConfig: "idle" | "called" | "done"
    lc_env,         \* the environment LoadModelConfig reads
    lc_ret,         \* the (config, error) pair LoadModelConfig returned
    cf_pc,          \* createOpenAIChatModelWithConfig: "idle" | "entered" |
                    \* "attempt" | "calling" | "sleep" | "returned" | "fatal" |
                    \* "panicked"
    cf_custom,      \* its customConfig argument, NilConfig for nil
    cf_env,         \* the environment it runs in
    cf_cfg,         \* its variable config
    cf_attempt,     \* its variable attempt
    cf_news,        \* number of calls of openai.NewChatModel so far
    cf_waits,       \* the waits it has computed, in seconds
    cf_err,         \* its variable err
    cf_ret,         \* the client it returned
    cf_expired,     \* the timeout of ctxWithTimeout has elapsed
    cf_lateNews,    \* calls of openai.NewChatModel started with it elapsed
    cf_lateWaits,   \* waits started with it elapsed
    tp_pc,          \* createMessagesFromTemplate: "idle" | "called" | "done"
    tp_in,          \* the values of the variables of the template
    tp_out          \* the conversation it returned

vars == <<ctxDone, ctxWhen, retryBaseDelay, cl_pc, cl_err, cl_out,
          gw_pc, gw_script, gw_attempt, gw_calls, gw_err, gw_waits, gw_ret,
          gw_timer, gw_ctxWaiter, gw_sel,
          rs_pc, rs_in, rs_chunk, rs_err, rs_reads, rs_ret, sr, sink, doneClosed, w_pc, w_via,
          ge_pc, ge_outcome, ge_calls, ge_ret, st_pc, st_outcome, st_calls, st_ret,
          lc_pc, lc_env, lc_ret,
          cf_pc, cf_custom, cf_env, cf_cfg, cf_attempt, cf_news, cf_waits,
          cf_err, cf_ret, cf_expired, cf_lateNews, cf_lateWaits,
          tp_pc, tp_in, tp_out>>

cl_vars == <<cl_pc, cl_err, cl_out>>
gw_vars == <<gw_pc, gw_script, gw_attempt, gw_calls, gw_err, gw_waits, gw_ret,
             gw_timer, gw_ctxWaiter, gw_sel>>
rs_vars == <<rs_pc, rs_in, rs_chunk, rs_err, rs_reads, rs_ret, sr, sink, doneClosed, w_pc, w_via>>
ge_vars == <<ge_pc, ge_outcome, ge_calls, ge_ret>>
st_vars == <<st_pc, st_outcome, st_calls, st_ret>>
ss_vars == <<ge_vars, st_vars>>
lc_vars == <<lc_pc, lc_env, lc_ret>>
cf_vars == <<cf_pc, cf_custom, cf_env, cf_cfg, cf_attempt, cf_news, cf_waits,
             cf_err, cf_ret, cf_expired, cf_lateNews, cf_lateWaits>>
tp_vars == <<tp_pc, tp_in, tp_out>>

(***************************************************************************)
(* Bounds of the model.                                                    *)
(***************************************************************************)
\* the longest chain of fmt.Errorf wrappers around an error given to isRetryableError
MaxWrap == 3
\* the largest number of chunks a sequence delivers before its terminal
MaxChunks == 3
\* the largest value retryBaseDelay takes, in delay units
MaxBaseDelay == 2
\* the longest value of an override in the environment, in characters
MaxStr == 3
\* the largest MaxRetries of a custom configuration
MaxCfgRetries == 2
\* the longest chat history given to the template, in messages
MaxHistory == 4

(***************************************************************************)
(* Error values.  An error is its chain, outermost layer first; nil is the *)
(* empty chain.  A layer made by fmt.Errorf("...%w", err) has kind "wrap"  *)
(* and unwraps to the rest of the chain.  Leaves carry an identity (id).   *)
(***************************************************************************)
NilErr == <<>>

Layer(kind, tag, id, n, timeout, temporary) ==
    [kind |-> kind, tag |-> tag, id |-> id, n |-> n,
     timeout |-> timeout, temporary |-> temporary]

\* errors.New(tag): an opaque error, implementing only Error()
GenericErr(tag, id) == << Layer("generic", tag, id, 0, FALSE, FALSE) >>

\* &fakeNetError{timeout, temporary}: implements net.Error
NetErr(id, timeout, temporary) == << Layer("net", "net", id, 0, timeout, temporary) >>

\* fmt.Errorf(tag + ": %w", err), n being the %d argument when there is one
Errorf(tag, n, err) == << Layer("wrap", tag, 0, n, FALSE, FALSE) >> \o err

\* context.Canceled, the value of ctx.Err() once ctx.Done() is closed
ctxErr == << Layer("ctx", "context canceled", 0, 0, FALSE, FALSE) >>

\* io.EOF
EOF == << Layer("eof", "EOF", 0, 0, FALSE, FALSE) >>

\* errors.Is(err, target): some error of err's chain is target
errorsIs(err, target) ==
    /\ target # NilErr
    /\ \E i \in 1..Len(err) : SubSeq(err, i, Len(err)) = target

\* errors.As(err, &netErr): position of the first error of the chain that
\* implements net.Error, 0 when there is none
errorsAsNet(err) ==
    IF \E i \in 1..Len(err) : err[i].kind = "net"
    THEN CHOOSE i \in 1..Len(err) :
            /\ err[i].kind = "net"
            /\ \A j \in 1..(i-1) : err[j].kind # "net"
    ELSE 0

isRetryableError_and(err) ==
    IF err = NilErr THEN FALSE
    ELSE LET i == errorsAsNet(err) IN
         IF i # 0 THEN err[i].timeout /\ err[i].temporary
         ELSE FALSE

isRetryableError(err) ==
    IF err = NilErr THEN FALSE
    ELSE LET i == errorsAsNet(err) IN
         IF i # 0 THEN err[i].timeout \/ err[i].temporary
         ELSE FALSE

(***************************************************************************)
(* Inputs of isRetryableError: nil, or a leaf (opaque, or a network error  *)
(* with any combination of flags) under 0..MaxWrap fmt.Errorf wrappers.    *)
(***************************************************************************)
WrapTags == {"ctx1", "ctx2"}

ErrLeaves ==
    {GenericErr("other", 1), GenericErr("boom", 2), ctxErr}
    \cup {NetErr(1, to, tmp) : to \in BOOLEAN, tmp \in BOOLEAN}

RECURSIVE WrapWith(_, _)
WrapWith(tags, err) ==
    IF tags = <<>> THEN err
    ELSE Errorf(tags[1], 0, WrapWith(Tail(tags), err))

TagSeqs == UNION {[1..k -> WrapTags] : k \in 0..MaxWrap}

ErrInputs == {NilErr} \cup {WrapWith(t, l) : t \in TagSeqs, l \in ErrLeaves}

(***************************************************************************)
(* generateWithRetry                                                       *)
(***************************************************************************)
maxRetries == 3

\* the nil *schema.Message
NoMsg == [role |-> "none", id |-> 0]

\* the message the remote returns from its k-th call when that call succeeds
Msg(k) == [role |-> "assistant", id |-> k]

\* what the remote does on one call: succeed, or fail with an error of this kind
Outcomes == {"ok", "generic", "wrapped_generic", "net_plain", "net_timeout",
             "net_temporary", "net_both", "wrapped_net_timeout"}

\* the error value of the remote's k-th call for a failing outcome
RemoteErr(o, k) ==
    CASE o = "generic"             -> GenericErr("fatal", k)
      [] o = "wrapped_generic"     -> Errorf("remote", 0, GenericErr("fatal", k))
      [] o = "net_plain"           -> NetErr(k, FALSE, FALSE)
      [] o = "net_timeout"         -> NetErr(k, TRUE, FALSE)
      [] o = "net_temporary"       -> NetErr(k, FALSE, TRUE)
      [] o = "net_both"            -> NetErr(k, TRUE, TRUE)
      [] o = "wrapped_net_timeout" -> Errorf("remote", 0, NetErr(k, TRUE, FALSE))

Scripts == [1..maxRetries -> Outcomes]

NoRet == [out |-> NoMsg, err |-> NilErr]

Idle ==
    /\ cl_pc = "idle"
    /\ gw_pc = "idle"
    /\ rs_pc = "idle"
    /\ ge_pc = "idle"
    /\ st_pc = "idle"
    /\ lc_pc = "idle"
    /\ cf_pc = "idle"
    /\ tp_pc = "idle"


\* line 43: the condition under which a failed attempt is followed by a wait
ShouldRetry_never(err, attempt) == FALSE

ShouldRetry_unbounded(err, attempt) == isRetryableError(err)

ShouldRetry_anyError(err, attempt) == attempt < maxRetries - 1

ShouldRetry(err, attempt) == isRetryableError(err) /\ attempt < maxRetries - 1

\* line 44: delay := retryBaseDelay * time.Duration(attempt+1)
Delay_constant(base, attempt) == base

Delay(base, attempt) == base * (attempt + 1)

\* line 54: fmt.Errorf("after %d retries: %w", attempt+1, err)
GiveUpErr_opaque(attempt, err) == GenericErr("after retries", attempt + 1)

GiveUpErr_attemptIndex(attempt, err) == Errorf("after retries", attempt, err)

GiveUpErr_ctxFirst(attempt, err) ==
    IF ctxDone THEN Errorf("generate retry canceled", 0, ctxErr)
    ELSE Errorf("after retries", attempt + 1, err)

GiveUpErr(attempt, err) == Errorf("after retries", attempt + 1, err)

\* line 49: fmt.Errorf("generate retry canceled: %w", ctx.Err()); err is the
\* local err of the loop, which the statement does not use
CanceledErr_generation(err) == Errorf("generate retry canceled", 0, err)

CanceledErr(err) == Errorf("generate retry canceled", 0, ctxErr)

\* lines 47-49: the timer that time.After(delay) started, once the select
\* has taken the case of ctx.Done(): the statement does not stop it.  With
\* the timers of Go before 1.23 (or asynctimerchan=1) it stays pending until
\* it fires; with those of Go 1.23 it is dropped as soon as no goroutine
\* waits on its channel.  The build decides.
TimerAfterCancel == {"pending", "none"}

\* line 57: errors.New("generateWithRetry: unexpected error")
UnexpectedErr == GenericErr("generateWithRetry: unexpected error", 0)

\* a caller invokes generateWithRetry(ctx, llm, in): the remote follows
\* script s, the context may already be cancelled
StartGenerateWithRetry ==
    /\ Idle
    /\ \E s \in Scripts, b \in 1..MaxBaseDelay, c \in BOOLEAN :
          /\ gw_script' = s
          /\ retryBaseDelay' = b
          /\ ctxDone' = c
          /\ ctxWhen' = IF c THEN "entry" ELSE "never"
    /\ gw_pc' = "call"
    /\ gw_attempt' = 0
    /\ UNCHANGED <<gw_calls, gw_err, gw_waits, gw_ret, gw_timer, gw_ctxWaiter, gw_sel>>
    /\ UNCHANGED <<cl_vars, rs_vars, ss_vars, lc_vars, cf_vars, tp_vars>>

\* one iteration of the loop body, lines 35-54: the call of llm.Generate and
\* the decision taken on its result.  On a retry the select of line 46 is
\* entered: its channel operands are evaluated, which starts the timer of
\* time.After(delay) (line 47); the cases are not polled yet.
GenerateAttempt ==
    /\ gw_pc = "call"
    /\ LET k == gw_calls + 1
           o == gw_script[k]
           err == IF o = "ok" THEN NilErr ELSE RemoteErr(o, k)
       IN  /\ gw_calls' = k
           /\ gw_err' = err
           /\ IF err = NilErr
              THEN /\ gw_ret' = [out |-> Msg(k), err |-> NilErr]
                   /\ gw_pc' = "done"
                   /\ UNCHANGED <<gw_waits, gw_timer, gw_ctxWaiter, gw_sel>>
              ELSE IF ShouldRetry(err, gw_attempt)
              THEN /\ gw_waits' = Append(gw_waits, Delay(retryBaseDelay, gw_attempt))
                   /\ gw_pc' = "wait"
                   /\ gw_timer' = "pending"
                   /\ gw_sel' = "poll"
                   /\ UNCHANGED gw_ctxWaiter
                   /\ UNCHANGED gw_ret
              ELSE /\ gw_ret' = [out |-> NoMsg, err |-> GiveUpErr(gw_attempt, err)]
                   /\ gw_pc' = "done"
                   /\ UNCHANGED <<gw_waits, gw_timer, gw_ctxWaiter, gw_sel>>
    /\ UNCHANGED <<gw_script, gw_attempt, ctxDone, ctxWhen, retryBaseDelay>>
    /\ UNCHANGED <<cl_vars, rs_vars, ss_vars, lc_vars, cf_vars, tp_vars>>

\* line 46: the select polls its two cases and finds neither ready (the
\* timer has not fired, the context is not cancelled): the goroutine parks,
\* enqueued on both channels
SelectPark ==
    /\ gw_pc = "wait"
    /\ gw_sel = "poll"
    /\ gw_timer = "pending"
    /\ ~ctxDone
    /\ gw_sel' = "parked"
    /\ gw_ctxWaiter' = TRUE
    /\ UNCHANGED <<gw_pc, gw_script, gw_attempt, gw_calls, gw_err, gw_waits,
                   gw_ret, gw_timer, ctxDone, ctxWhen, retryBaseDelay>>
    /\ UNCHANGED <<cl_vars, rs_vars, ss_vars, lc_vars, cf_vars, tp_vars>>

\* lines 46-47, 51, 34: the select takes the case of the timer; continue,
\* attempt++, loop test.  The case is taken when the timer woke the parked
\* goroutine, and it can be taken when the poll finds the timer fired,
\* whether or not ctx.Done() is closed too: of two ready cases the select
\* takes either one.
WaitElapsed ==
    /\ gw_pc = "wait"
    /\ \/ gw_sel = "timer"
       \/ gw_sel = "poll" /\ gw_timer = "fired"
    /\ gw_timer' = "none"
    /\ gw_ctxWaiter' = FALSE
    /\ gw_sel' = "none"
    /\ gw_attempt' = gw_attempt + 1
    /\ IF gw_attempt + 1 < maxRetries
       THEN gw_pc' = "call" /\ UNCHANGED gw_ret
       ELSE /\ gw_ret' = [out |-> NoMsg, err |-> UnexpectedErr]
            /\ gw_pc' = "done"
    /\ UNCHANGED <<gw_script, gw_calls, gw_err, gw_waits, ctxDone, ctxWhen, retryBaseDelay>>
    /\ UNCHANGED <<cl_vars, rs_vars, ss_vars, lc_vars, cf_vars, tp_vars>>

\* lines 48-49: the select takes the case of ctx.Done(): the cancellation
\* woke the parked goroutine, or the poll finds the context cancelled (and
\* the timer fired or not).  A timer that has fired keeps its value in the
\* buffer of its channel.
WaitCanceled ==
    /\ gw_pc = "wait"
    /\ \/ gw_sel = "ctx"
       \/ gw_sel = "poll" /\ ctxDone
    /\ gw_ret' = [out |-> NoMsg, err |-> CanceledErr(gw_err)]
    /\ gw_pc' = "done"
    /\ IF gw_timer = "pending"
       THEN \E t \in TimerAfterCancel : gw_timer' = t
       ELSE UNCHANGED gw_timer
    /\ gw_ctxWaiter' = FALSE
    /\ gw_sel' = "none"
    /\ UNCHANGED <<gw_script, gw_attempt, gw_calls, gw_err, gw_waits, ctxDone, ctxWhen, retryBaseDelay>>
    /\ UNCHANGED <<cl_vars, rs_vars, ss_vars, lc_vars, cf_vars, tp_vars>>

\* line 47: the timer of time.After(delay) fires, during the wait (a parked
\* goroutine that nothing has woken yet is woken by it) or, left pending by
\* a cancelled wait, after generateWithRetry has returned; then its value
\* stays in the buffer of the channel, from which nobody receives
TimerFires ==
    /\ gw_pc \in {"wait", "done"}
    /\ gw_timer = "pending"
    /\ gw_timer' = "fired"
    /\ gw_sel' = IF gw_sel = "parked" THEN "timer" ELSE gw_sel
    /\ UNCHANGED <<gw_pc, gw_script, gw_attempt, gw_calls, gw_err, gw_waits,
                   gw_ret, gw_ctxWaiter, ctxDone, ctxWhen, retryBaseDelay>>
    /\ UNCHANGED <<cl_vars, rs_vars, ss_vars, lc_vars, cf_vars, tp_vars>>

\* the owner of the context calls cancel() while an operation is running
\* or its watcher is still alive; a goroutine parked in the select of the
\* wait that nothing has woken yet is woken by the closing of ctx.Done()
Cancel ==
    /\ ~ctxDone
    /\ \/ gw_pc \in {"call", "wait"}
       \/ rs_pc \in {"recv", "write"}
       \/ w_pc = "select"
    /\ ctxDone' = TRUE
    /\ ctxWhen' = IF gw_pc = "wait"
                  THEN (IF gw_timer = "pending" THEN "wait" ELSE "elapsed")
                  ELSE IF gw_pc # "idle" THEN gw_pc ELSE rs_pc
    /\ gw_sel' = IF gw_sel = "parked" THEN "ctx" ELSE gw_sel
    /\ UNCHANGED <<gw_pc, gw_script, gw_attempt, gw_calls, gw_err, gw_waits,
                   gw_ret, gw_timer, gw_ctxWaiter>>
    /\ UNCHANGED <<retryBaseDelay, cl_vars, rs_vars, ss_vars, lc_vars, cf_vars, tp_vars>>

(***************************************************************************)
(* isRetryableError applied to an arbitrary error value                    *)
(***************************************************************************)
StartClassify ==
    /\ Idle
    /\ \E e \in ErrInputs : cl_err' = e
    /\ cl_pc' = "called"
    /\ UNCHANGED <<cl_out, ctxDone, ctxWhen, retryBaseDelay, gw_vars, rs_vars, ss_vars, lc_vars, cf_vars, tp_vars>>

Classify ==
    /\ cl_pc = "called"
    /\ cl_out' = isRetryableError(cl_err)
    /\ cl_pc' = "done"
    /\ UNCHANGED <<cl_err, ctxDone, ctxWhen, retryBaseDelay, gw_vars, rs_vars, ss_vars, lc_vars, cf_vars, tp_vars>>

(***************************************************************************)
(* The chunk sequence (schema.StreamReader) and the sink (io.Writer)       *)
(***************************************************************************)
\* a nil *schema.Message
NilChunk == [isNil |-> TRUE, content |-> ""]

Chunk(c) == [isNil |-> FALSE, content |-> c]

\* the chunks a sequence may deliver: nil, empty content, content
Chunks == {NilChunk, Chunk(""), Chunk("a"), Chunk("b")}

ChunkSeqs == UNION {[1..n -> Chunks] : n \in 0..MaxChunks}

\* what follows the last chunk: end-of-stream, a read failure, or nothing
\* (the producer has stalled and a read blocks)
Terminals == {"eof", "err", "stall"}

\* the I/O failure a read reports
ReadErr == GenericErr("read failed", 1)

\* the error a read of a closed sequence may report instead of io.EOF
ClosedErr == GenericErr("stream closed", 2)

\* the failure a write to the sink reports
WriteErr == GenericErr("write failed", 3)

NewStream(items, term) ==
    [items |-> items, term |-> term, closed |-> FALSE, autoClose |-> FALSE, closeCalls |-> 0]

\* sr.SetAutomaticClose()
SetAutomaticClose(s) == [s EXCEPT !.autoClose = TRUE]

\* sr.Close(): idempotent
Close(s) == [s EXCEPT !.closed = TRUE, !.closeCalls = @ + 1]

\* sr.Recv(): the possible results of a read as (chunk, err, stream after the
\* read); the empty set when the read blocks.  A read of a closed sequence
\* terminates, with end-of-stream or with an error.
Recv(s) ==
    IF s.closed
    THEN {[chunk |-> NilChunk, err |-> e, sr |-> s] : e \in {EOF, ClosedErr}}
    ELSE IF s.items # <<>>
    THEN {[chunk |-> Head(s.items), err |-> NilErr, sr |-> [s EXCEPT !.items = Tail(@)]]}
    ELSE IF s.term = "eof" THEN {[chunk |-> NilChunk, err |-> EOF, sr |-> s]}
    ELSE IF s.term = "err" THEN {[chunk |-> NilChunk, err |-> ReadErr, sr |-> s]}
    ELSE {}

NewSink(failAt) == [writes |-> <<>>, failAt |-> failAt]

(***************************************************************************)
(* reportStreamWithContext                                                 *)
(***************************************************************************)
\* line 17: sr.SetAutomaticClose()
EnableAutoClose(s) == SetAutomaticClose(s)

\* lines 36-42: what the drain loop does with the result of sr.Recv
OnRecv_nilEnds(chunk, err) ==
    IF err = EOF \/ (err = NilErr /\ chunk.isNil) THEN "return_nil"
    ELSE IF err # NilErr THEN "return_err"
    ELSE IF ~chunk.isNil /\ chunk.content # "" THEN "write"
    ELSE "loop"

OnRecv_eofIsError(chunk, err) ==
    IF err # NilErr THEN "return_err"
    ELSE IF ~chunk.isNil /\ chunk.content # "" THEN "write"
    ELSE "loop"

OnRecv_writesEmpty(chunk, err) ==
    IF err = EOF THEN "return_nil"
    ELSE IF err # NilErr THEN "return_err"
    ELSE IF ~chunk.isNil THEN "write"
    ELSE "loop"

OnRecv_ignoreError(chunk, err) ==
    IF err = EOF THEN "return_nil"
    ELSE IF ~chunk.isNil /\ chunk.content # "" THEN "write"
    ELSE "loop"

OnRecv(chunk, err) ==
    IF err = EOF THEN "return_nil"
    ELSE IF err # NilErr THEN "return_err"
    ELSE IF ~chunk.isNil /\ chunk.content # "" THEN "write"
    ELSE "loop"

\* line 40: fmt.Errorf("stream error: %w", err)
StreamErr(err) == Errorf("stream error", 0, err)

\* lines 43-45: what the drain loop does with the result of fmt.Fprint
OnWrite_ignoreError(err) == "loop"

OnWrite(err) == IF err # NilErr THEN "return_err" ELSE "loop"

\* line 44: fmt.Errorf("write error: %w", err)
WriteFailure(err) == Errorf("write error", 0, err)

\* line 21: defer close(done), run when reportStreamWithContext returns
DeferCloseDone_missing(d) == d

DeferCloseDone(d) == TRUE

\* line 29: the watcher's action on cancellation
WatcherClose_missing(s) == s

WatcherClose_twice(s) == Close(Close(s))

WatcherClose(s) == Close(s)

\* a caller invokes reportStreamWithContext(ctx, sr, writer); lines 17-32:
\* SetAutomaticClose, make(done), go watcher
StartReportStream ==
    /\ Idle
    /\ \E items \in ChunkSeqs, term \in Terminals, f \in 0..MaxChunks, c \in BOOLEAN :
          /\ sr' = EnableAutoClose(NewStream(items, term))
          /\ sink' = NewSink(f)
          /\ ctxDone' = c
          /\ ctxWhen' = IF c THEN "entry" ELSE "never"
          /\ rs_in' = [items |-> items, term |-> term]
    /\ doneClosed' = FALSE
    /\ w_pc' = "select"
    /\ rs_pc' = "recv"
    /\ UNCHANGED <<rs_chunk, rs_err, rs_reads, rs_ret, w_via>>
    /\ UNCHANGED <<retryBaseDelay, cl_vars, gw_vars, ss_vars, lc_vars, cf_vars, tp_vars>>

\* lines 35-42: a read returns and the loop acts on it
DrainRecv ==
    /\ rs_pc = "recv"
    /\ \E r \in Recv(sr) :
          /\ sr' = r.sr
          /\ rs_chunk' = r.chunk
          /\ rs_err' = r.err
          /\ rs_reads' = rs_reads + 1
          /\ LET todo == OnRecv(r.chunk, r.err) IN
             CASE todo = "return_nil" ->
                    /\ rs_ret' = NilErr
                    /\ rs_pc' = "returned"
                    /\ doneClosed' = DeferCloseDone(doneClosed)
               [] todo = "return_err" ->
                    /\ rs_ret' = StreamErr(r.err)
                    /\ rs_pc' = "returned"
                    /\ doneClosed' = DeferCloseDone(doneClosed)
               [] todo = "write" ->
                    /\ rs_pc' = "write"
                    /\ UNCHANGED <<rs_ret, doneClosed>>
               [] todo = "loop" ->
                    /\ rs_pc' = "recv"
                    /\ UNCHANGED <<rs_ret, doneClosed>>
    /\ UNCHANGED <<rs_in, sink, w_pc, w_via>>
    /\ UNCHANGED <<ctxDone, ctxWhen, retryBaseDelay, cl_vars, gw_vars, ss_vars, lc_vars, cf_vars, tp_vars>>

\* lines 43-45: fmt.Fprint(writer, chunk.Content) returns
DrainWrite ==
    /\ rs_pc = "write"
    /\ LET k == Len(sink.writes) + 1
           err == IF k = sink.failAt THEN WriteErr ELSE NilErr
       IN  /\ sink' = [sink EXCEPT !.writes = Append(@, rs_chunk.content)]
           /\ IF OnWrite(err) = "return_err"
              THEN /\ rs_ret' = WriteFailure(err)
                   /\ rs_pc' = "returned"
                   /\ doneClosed' = DeferCloseDone(doneClosed)
              ELSE /\ rs_pc' = "recv"
                   /\ UNCHANGED <<rs_ret, doneClosed>>
    /\ UNCHANGED <<rs_in, rs_chunk, rs_err, rs_reads, sr, w_pc, w_via>>
    /\ UNCHANGED <<ctxDone, ctxWhen, retryBaseDelay, cl_vars, gw_vars, ss_vars, lc_vars, cf_vars, tp_vars>>

\* lines 26-27: the watcher's select takes case <-done
WatcherDone ==
    /\ w_pc = "select"
    /\ doneClosed
    /\ w_pc' = "exited"
    /\ w_via' = "done"
    /\ UNCHANGED <<rs_pc, rs_in, rs_chunk, rs_err, rs_reads, rs_ret, sr, sink, doneClosed>>
    /\ UNCHANGED <<ctxDone, ctxWhen, retryBaseDelay, cl_vars, gw_vars, ss_vars, lc_vars, cf_vars, tp_vars>>

\* lines 28-30: the watcher's select takes case <-ctx.Done()
WatcherCancel ==
    /\ w_pc = "select"
    /\ ctxDone
    /\ sr' = WatcherClose(sr)
    /\ w_pc' = "exited"
    /\ w_via' = "cancel"
    /\ UNCHANGED <<rs_pc, rs_in, rs_chunk, rs_err, rs_reads, rs_ret, sink, doneClosed>>
    /\ UNCHANGED <<ctxDone, ctxWhen, retryBaseDelay, cl_vars, gw_vars, ss_vars, lc_vars, cf_vars, tp_vars>>

(***************************************************************************)
(* generate and stream: one call of the remote capability                  *)
(***************************************************************************)
\* line 24: fmt.Errorf("llm generate failed: %w", err)
GenerateFailure_opaque(err) == GenericErr("llm generate failed", 0)

GenerateFailure(err) == Errorf("llm generate failed", 0, err)

\* lines 22-28: what generate returns for the (out, err) of llm.Generate
GenerateResult_dropsMessage(out, err) ==
    IF err # NilErr THEN [out |-> NoMsg, err |-> GenerateFailure(err)]
    ELSE [out |-> NoMsg, err |-> NilErr]

GenerateResult(out, err) ==
    IF err # NilErr THEN [out |-> NoMsg, err |-> GenerateFailure(err)]
    ELSE [out |-> out, err |-> NilErr]

\* the nil *schema.StreamReader
NoReader == [reader |-> 0]

\* the reader the remote returns from its k-th call of Stream
Reader(k) == [reader |-> k]

\* line 67: fmt.Errorf("llm stream failed: %w", err)
StreamFailure(err) == Errorf("llm stream failed", 0, err)

\* lines 65-71: what stream returns for the (stream, err) of llm.Stream
StreamResult_opaque(rd, err) ==
    IF err # NilErr THEN [out |-> NoReader, err |-> GenericErr("llm stream failed", 0)]
    ELSE [out |-> rd, err |-> NilErr]

StreamResult(rd, err) ==
    IF err # NilErr THEN [out |-> NoReader, err |-> StreamFailure(err)]
    ELSE [out |-> rd, err |-> NilErr]

\* a caller invokes generate(ctx, llm, in)
StartGenerate ==
    /\ Idle
    /\ \E o \in Outcomes : ge_outcome' = o
    /\ ge_pc' = "call"
    /\ UNCHANGED <<ge_calls, ge_ret, st_vars>>
    /\ UNCHANGED <<ctxDone, ctxWhen, retryBaseDelay, cl_vars, gw_vars, rs_vars, lc_vars, cf_vars, tp_vars>>

\* lines 18-28: the call of llm.Generate and the return
generate ==
    /\ ge_pc = "call"
    /\ LET k == ge_calls + 1
           err == IF ge_outcome = "ok" THEN NilErr ELSE RemoteErr(ge_outcome, k)
           out == IF ge_outcome = "ok" THEN Msg(k) ELSE NoMsg
       IN  /\ ge_calls' = k
           /\ ge_ret' = GenerateResult(out, err)
    /\ ge_pc' = "done"
    /\ UNCHANGED <<ge_outcome, st_vars>>
    /\ UNCHANGED <<ctxDone, ctxWhen, retryBaseDelay, cl_vars, gw_vars, rs_vars, lc_vars, cf_vars, tp_vars>>

\* a caller invokes stream(ctx, llm, in)
StartStream ==
    /\ Idle
    /\ \E o \in Outcomes : st_outcome' = o
    /\ st_pc' = "call"
    /\ UNCHANGED <<st_calls, st_ret, ge_vars>>
    /\ UNCHANGED <<ctxDone, ctxWhen, retryBaseDelay, cl_vars, gw_vars, rs_vars, lc_vars, cf_vars, tp_vars>>

\* lines 61-71: the call of llm.Stream and the return
stream ==
    /\ st_pc = "call"
    /\ LET k == st_calls + 1
           err == IF st_outcome = "ok" THEN NilErr ELSE RemoteErr(st_outcome, k)
           rd == IF st_outcome = "ok" THEN Reader(k) ELSE NoReader
       IN  /\ st_calls' = k
           /\ st_ret' = StreamResult(rd, err)
    /\ st_pc' = "done"
    /\ UNCHANGED <<st_outcome, ge_vars>>
    /\ UNCHANGED <<ctxDone, ctxWhen, retryBaseDelay, cl_vars, gw_vars, rs_vars, lc_vars, cf_vars, tp_vars>>

(***************************************************************************)
(* Strings of the environment.  A string is the sequence of its            *)
(* characters, over an alphabet with two digits, the minus sign, the       *)
(* period, the unit letter of seconds and a letter that is no unit.  The   *)
(* alphabet has no space, no '+', no exponent letter, no 'x' and no        *)
(* letter of "nan" or "inf": the branches of the scanners for those are    *)
(* not modelled.                                                           *)
(***************************************************************************)
Chars == {"0", "3", "-", ".", "s", "a"}

Digits == {"0", "3"}

DigitVal(c) == IF c = "3" THEN 3 ELSE 0

Strs == UNION {[1..n -> Chars] : n \in 0..MaxStr}

\* length of the longest prefix of str made of characters of set
RECURSIVE PrefixLen(_, _)
PrefixLen(str, set) ==
    IF str = <<>> \/ Head(str) \notin set THEN 0
    ELSE 1 + PrefixLen(Tail(str), set)

Drop(str, n) == SubSeq(str, n + 1, Len(str))

\* the value of a sequence of decimal digits, 0 for the empty one
RECURSIVE DecVal(_)
DecVal(digs) ==
    IF digs = <<>> THEN 0
    ELSE DecVal(SubSeq(digs, 1, Len(digs) - 1)) * 10 + DigitVal(digs[Len(digs)])

RECURSIVE Pow10(_)
Pow10(n) == IF n <= 0 THEN 1 ELSE 10 * Pow10(n - 1)

\* the error of a failed fmt.Sscanf
ScanErr == GenericErr("scan", 0)

\* the error of a failed time.ParseDuration
DurationErr == GenericErr("invalid duration", 0)

\* fmt.Sscanf(str, "%d", &v): an optional sign and the longest run of
\* digits at the start of str; what follows is left unread.  n is the
\* number of items scanned, val the value stored (when n = 1).
SscanfInt(str) ==
    LET neg  == str # <<>> /\ Head(str) = "-"
        rest == IF neg THEN Tail(str) ELSE str
        k    == PrefixLen(rest, Digits)
        v    == DecVal(SubSeq(rest, 1, k))
    IN  IF k = 0 THEN [n |-> 0, val |-> 0, err |-> ScanErr]
        ELSE [n |-> 1, val |-> IF neg THEN 0 - v ELSE v, err |-> NilErr]

\* fmt.Sscanf(str, "%f", &v): an optional sign, digits, an optional period
\* and digits at the start of str, converted by strconv.ParseFloat, which
\* fails when the token has no digit; what follows the token is left
\* unread.  val is in thousandths.
SscanfFloat(str) ==
    LET neg    == str # <<>> /\ Head(str) = "-"
        rest   == IF neg THEN Tail(str) ELSE str
        pre    == PrefixLen(rest, Digits)
        s1     == Drop(rest, pre)
        hasDot == s1 # <<>> /\ Head(s1) = "."
        s2     == IF hasDot THEN Tail(s1) ELSE s1
        post   == IF hasDot THEN PrefixLen(s2, Digits) ELSE 0
        kept   == IF post > 3 THEN 3 ELSE post
        v      == DecVal(SubSeq(rest, 1, pre)) * 1000
                  + DecVal(SubSeq(s2, 1, kept)) * Pow10(3 - kept)
    IN  IF pre = 0 /\ post = 0 THEN [n |-> 0, val |-> 0, err |-> ScanErr]
        ELSE [n |-> 1, val |-> IF neg THEN 0 - v ELSE v, err |-> NilErr]

\* the loop of time.ParseDuration over the groups number-unit of s: ok and
\* the sum in milliseconds.  A group is digits, an optional period and
\* digits (one digit at least), then a unit: every character up to the next
\* digit or period; the one unit of the alphabet is "s".
RECURSIVE DurationGroups(_)
DurationGroups(s) ==
    IF s = <<>> THEN [ok |-> TRUE, val |-> 0]
    ELSE IF Head(s) \notin (Digits \cup {"."}) THEN [ok |-> FALSE, val |-> 0]
    ELSE
    LET pre    == PrefixLen(s, Digits)
        s1     == Drop(s, pre)
        hasDot == s1 # <<>> /\ Head(s1) = "."
        s2     == IF hasDot THEN Tail(s1) ELSE s1
        post   == IF hasDot THEN PrefixLen(s2, Digits) ELSE 0
        s3     == Drop(s2, post)
        ulen   == PrefixLen(s3, Chars \ (Digits \cup {"."}))
        unit   == SubSeq(s3, 1, ulen)
        kept   == IF post > 3 THEN 3 ELSE post
        v      == DecVal(SubSeq(s, 1, pre)) * 1000
                  + DecVal(SubSeq(s2, 1, kept)) * Pow10(3 - kept)
    IN  IF pre = 0 /\ post = 0 THEN [ok |-> FALSE, val |-> 0]
        ELSE IF ulen = 0 THEN [ok |-> FALSE, val |-> 0]
        ELSE IF unit # <<"s">> THEN [ok |-> FALSE, val |-> 0]
        ELSE LET r == DurationGroups(Drop(s3, ulen)) IN
             IF r.ok THEN [ok |-> TRUE, val |-> v + r.val]
             ELSE [ok |-> FALSE, val |-> 0]

\* time.ParseDuration(str), val in milliseconds
ParseDuration(str) ==
    LET neg  == str # <<>> /\ Head(str) = "-"
        rest == IF neg THEN Tail(str) ELSE str
        r    == DurationGroups(rest)
    IN  IF rest = <<"0">> THEN [val |-> 0, err |-> NilErr]
        ELSE IF rest = <<>> THEN [val |-> 0, err |-> DurationErr]
        ELSE IF ~r.ok THEN [val |-> 0, err |-> DurationErr]
        ELSE [val |-> IF neg THEN 0 - r.val ELSE r.val, err |-> NilErr]

(***************************************************************************)
(* ModelConfig and LoadModelConfig                                         *)
(***************************************************************************)
\* type ModelConfig; Temperature in thousandths, Timeout in milliseconds;
\* isNil marks the nil *ModelConfig
ModelConfig(key, model, url, temp, timeout, retries) ==
    [isNil |-> FALSE, APIKey |-> key, Model |-> model, BaseURL |-> url,
     Temperature |-> temp, Timeout |-> timeout, MaxRetries |-> retries]

NilConfig ==
    [isNil |-> TRUE, APIKey |-> <<>>, Model |-> <<>>, BaseURL |-> <<>>,
     Temperature |-> 0, Timeout |-> 0, MaxRetries |-> 0]

DefaultTemperature == 700

DefaultTimeout == 30000

DefaultMaxRetries == 3

DefaultModelConfig_shortTimeout ==
    ModelConfig(<<>>, <<>>, <<>>, DefaultTemperature, 3000, DefaultMaxRetries)

DefaultModelConfig ==
    ModelConfig(<<>>, <<>>, <<>>, DefaultTemperature, DefaultTimeout, DefaultMaxRetries)

\* os.Getenv(key)
Getenv(env, key) == env[key]

EnvKeys == {"OPENAI_API_KEY", "OPENAI_MODEL_NAME", "OPENAI_BASE_URL",
            "OPENAI_TEMPERATURE", "OPENAI_TIMEOUT", "OPENAI_MAX_RETRIES"}

\* errors.New(key + " environment variable is required")
RequiredErr(key) == << Layer("required", key, 0, 0, FALSE, FALSE) >>

\* fmt.Errorf("invalid " + key + " value: %w", err)
InvalidErr(key, err) == Errorf(key, 0, err)

Failed(err) == [cfg |-> NilConfig, err |-> err]

\* lines 40-44
LoadAPIKey(r, env) ==
    IF r.err # NilErr THEN r
    ELSE LET key == Getenv(env, "OPENAI_API_KEY") IN
         IF key = <<>> THEN Failed(RequiredErr("OPENAI_API_KEY"))
         ELSE [r EXCEPT !.cfg.APIKey = key]

\* lines 47-51
LoadModel_unchecked(r, env) ==
    IF r.err # NilErr THEN r
    ELSE [r EXCEPT !.cfg.Model = Getenv(env, "OPENAI_MODEL_NAME")]

LoadModel(r, env) ==
    IF r.err # NilErr THEN r
    ELSE LET modelName == Getenv(env, "OPENAI_MODEL_NAME") IN
         IF modelName = <<>> THEN Failed(RequiredErr("OPENAI_MODEL_NAME"))
         ELSE [r EXCEPT !.cfg.Model = modelName]

\* lines 54-56
LoadBaseURL(r, env) ==
    IF r.err # NilErr THEN r
    ELSE LET baseURL == Getenv(env, "OPENAI_BASE_URL") IN
         IF baseURL # <<>> THEN [r EXCEPT !.cfg.BaseURL = baseURL]
         ELSE r

\* lines 59-65
LoadTemperature(r, env) ==
    IF r.err # NilErr THEN r
    ELSE LET tempStr == Getenv(env, "OPENAI_TEMPERATURE") IN
         IF tempStr # <<>>
         THEN LET sc == SscanfFloat(tempStr) IN
              IF sc.err # NilErr
              THEN Failed(InvalidErr("OPENAI_TEMPERATURE", sc.err))
              ELSE [r EXCEPT !.cfg.Temperature = sc.val]
         ELSE r

\* lines 68-74
LoadTimeout(r, env) ==
    IF r.err # NilErr THEN r
    ELSE LET timeoutStr == Getenv(env, "OPENAI_TIMEOUT") IN
         IF timeoutStr # <<>>
         THEN LET pd == ParseDuration(timeoutStr) IN
              IF pd.err # NilErr
              THEN Failed(InvalidErr("OPENAI_TIMEOUT", pd.err))
              ELSE [r EXCEPT !.cfg.Timeout = pd.val]
         ELSE r

\* lines 77-81: the result of Sscanf that the condition tests is the number
\* of items scanned; the value is stored in config.MaxRetries by Sscanf
LoadMaxRetries(r, env) ==
    IF r.err # NilErr THEN r
    ELSE LET maxRetriesStr == Getenv(env, "OPENAI_MAX_RETRIES") IN
         IF maxRetriesStr # <<>>
         THEN LET sc == SscanfInt(maxRetriesStr)
                  scanned == sc.n
              IN  IF sc.err # NilErr \/ scanned < 0
                  THEN Failed(InvalidErr("OPENAI_MAX_RETRIES", sc.err))
                  ELSE [r EXCEPT !.cfg.MaxRetries = sc.val]
         ELSE r

\* lines 36-84
LoadModelConfig(env) ==
    LoadMaxRetries(
      LoadTimeout(
        LoadTemperature(
          LoadBaseURL(
            LoadModel(
              LoadAPIKey([cfg |-> DefaultModelConfig, err |-> NilErr], env),
              env),
            env),
          env),
        env),
      env)

\* environments: each required setting and the endpoint absent or present
Present == {<<>>, <<"a">>}

MkEnv(key, model, url, temp, timeout, retries) ==
    [k \in EnvKeys |->
        CASE k = "OPENAI_API_KEY"     -> key
          [] k = "OPENAI_MODEL_NAME"  -> model
          [] k = "OPENAI_BASE_URL"    -> url
          [] k = "OPENAI_TEMPERATURE" -> temp
          [] k = "OPENAI_TIMEOUT"     -> timeout
          [] k = "OPENAI_MAX_RETRIES" -> retries]

\* sample overrides: absent, well-formed, malformed
TemperatureSamples == {<<>>, <<"0", ".", "3">>, <<"a">>}

TimeoutSamples == {<<>>, <<"3", "s">>, <<"a">>}

MaxRetriesSamples == {<<>>, <<"0">>, <<"-", "3">>, <<"a">>}

\* every combination of absent and present required settings with the
\* sample overrides
SampleEnvs ==
    {MkEnv(k, m, u, t, to, mr) :
        k \in Present, m \in Present, u \in Present,
        t \in TemperatureSamples, to \in TimeoutSamples, mr \in MaxRetriesSamples}

\* the required settings present and one override any string, the other
\* overrides absent or well-formed
OverrideEnvs ==
    {MkEnv(<<"a">>, <<"a">>, u, t, to, mr) :
        u \in Present, t \in Strs,
        to \in {<<>>, <<"3", "s">>}, mr \in {<<>>, <<"0">>}}
    \cup
    {MkEnv(<<"a">>, <<"a">>, u, t, to, mr) :
        u \in Present, t \in {<<>>, <<"0", ".", "3">>},
        to \in Strs, mr \in {<<>>, <<"0">>}}
    \cup
    {MkEnv(<<"a">>, <<"a">>, u, t, to, mr) :
        u \in Present, t \in {<<>>, <<"0", ".", "3">>},
        to \in {<<>>, <<"3", "s">>}, mr \in Strs}

Envs == SampleEnvs \cup OverrideEnvs

\* a caller invokes LoadModelConfig() in environment env
StartLoadModelConfig ==
    /\ Idle
    /\ \E env \in Envs : lc_env' = env
    /\ lc_pc' = "called"
    /\ UNCHANGED lc_ret
    /\ UNCHANGED <<ctxDone, ctxWhen, retryBaseDelay, cl_vars, gw_vars, rs_vars, ss_vars, cf_vars, tp_vars>>

\* lines 36-84: LoadModelConfig returns
LoadConfig ==
    /\ lc_pc = "called"
    /\ lc_ret' = LoadModelConfig(lc_env)
    /\ lc_pc' = "done"
    /\ UNCHANGED lc_env
    /\ UNCHANGED <<ctxDone, ctxWhen, retryBaseDelay, cl_vars, gw_vars, rs_vars, ss_vars, cf_vars, tp_vars>>

(***************************************************************************)
(* createOpenAIChatModelWithConfig                                         *)
(***************************************************************************)
NoEnv == MkEnv(<<>>, <<>>, <<>>, <<>>, <<>>, <<>>)

\* the configurations a caller passes as customConfig
CustomConfigs ==
    {ModelConfig(<<"a">>, <<"a">>, <<>>, DefaultTemperature, to, m) :
        to \in {0, DefaultTimeout}, m \in (0 - 1)..MaxCfgRetries}

\* the client of the k-th call of openai.NewChatModel; NoClient is nil
Client(k) == [client |-> k]

NoClient == [client |-> 0]

\* the error of a failed openai.NewChatModel
NewChatModelErr(k) == GenericErr("new chat model", k)

\* line 110: the test of the loop
LoopTest(attempt, config) ==
    IF attempt <= config.MaxRetries THEN "attempt" ELSE "panicked"

\* line 105: the context of context.WithTimeout(ctx, timeout) is done from
\* its creation when the timeout is not positive
ExpiredAtCreation(timeout) == timeout <= 0

\* lines 126-128: what follows a failed attempt: log.Fatalf ends the process
\* after the last attempt, a wait follows any other
AfterFailure_returnsNil(attempt, config) ==
    IF attempt = config.MaxRetries THEN "returned" ELSE "sleep"

AfterFailure(attempt, config) ==
    IF attempt = config.MaxRetries THEN "fatal" ELSE "sleep"

\* line 131: the wait after the failure of attempt, in seconds
BackoffWait_constant(attempt) == 1

BackoffWait(attempt) == attempt + 1

\* a caller invokes createOpenAIChatModelWithConfig(ctx, customConfig), or
\* createOpenAIChatModel(ctx), which passes nil, in environment env
StartCreateModel ==
    /\ Idle
    /\ \/ \E c \in CustomConfigs : cf_custom' = c /\ cf_env' = NoEnv
       \/ \E env \in SampleEnvs : cf_custom' = NilConfig /\ cf_env' = env
    /\ cf_pc' = "entered"
    /\ UNCHANGED <<cf_cfg, cf_attempt, cf_news, cf_waits, cf_err, cf_ret,
                   cf_expired, cf_lateNews, cf_lateWaits>>
    /\ UNCHANGED <<ctxDone, ctxWhen, retryBaseDelay, cl_vars, gw_vars, rs_vars, ss_vars, lc_vars, tp_vars>>

\* lines 95-110: the configuration is the custom one or the loaded one; a
\* failed load ends the process in log.Fatalf; then the context with the
\* timeout is created and the loop is entered
ResolveConfig ==
    /\ cf_pc = "entered"
    /\ LET r == IF ~cf_custom.isNil
                THEN [cfg |-> cf_custom, err |-> NilErr]
                ELSE LoadModelConfig(cf_env)
       IN  /\ cf_cfg' = r.cfg
           /\ cf_err' = r.err
           /\ cf_pc' = IF r.err # NilErr THEN "fatal" ELSE LoopTest(0, r.cfg)
           /\ cf_expired' = (r.err = NilErr /\ ExpiredAtCreation(r.cfg.Timeout))
    /\ cf_attempt' = 0
    /\ UNCHANGED <<cf_custom, cf_env, cf_news, cf_waits, cf_ret,
                   cf_lateNews, cf_lateWaits>>
    /\ UNCHANGED <<ctxDone, ctxWhen, retryBaseDelay, cl_vars, gw_vars, rs_vars, ss_vars, lc_vars, tp_vars>>

\* line 105: the timeout of ctxWithTimeout elapses while the function runs:
\* before a call of openai.NewChatModel, during one, or during a wait
DeadlineElapses ==
    /\ cf_pc \in {"attempt", "calling", "sleep"}
    /\ ~cf_expired
    /\ cf_expired' = TRUE
    /\ UNCHANGED <<cf_pc, cf_custom, cf_env, cf_cfg, cf_attempt, cf_news,
                   cf_waits, cf_err, cf_ret, cf_lateNews, cf_lateWaits>>
    /\ UNCHANGED <<ctxDone, ctxWhen, retryBaseDelay, cl_vars, gw_vars, rs_vars, ss_vars, lc_vars, tp_vars>>

\* lines 111-116: a call of openai.NewChatModel starts; it is given
\* ctxWithTimeout, which the loop does not read before the call
NewChatModelCall ==
    /\ cf_pc = "attempt"
    /\ cf_news' = cf_news + 1
    /\ cf_lateNews' = IF cf_expired THEN cf_lateNews + 1 ELSE cf_lateNews
    /\ cf_pc' = "calling"
    /\ UNCHANGED <<cf_custom, cf_env, cf_cfg, cf_attempt, cf_waits, cf_err,
                   cf_ret, cf_expired, cf_lateWaits>>
    /\ UNCHANGED <<ctxDone, ctxWhen, retryBaseDelay, cl_vars, gw_vars, rs_vars, ss_vars, lc_vars, tp_vars>>

\* lines 111-133: the call of openai.NewChatModel returns, having succeeded
\* or failed; success returns the client, the failure of the last attempt
\* ends the process in log.Fatalf, another failure starts the wait of
\* time.Sleep; none of these reads the context
NewChatModelReturn ==
    /\ cf_pc = "calling"
    /\ \E ok \in BOOLEAN :
          IF ok
          THEN /\ cf_err' = NilErr
               /\ cf_ret' = Client(cf_news)
               /\ cf_pc' = "returned"
               /\ UNCHANGED <<cf_waits, cf_lateWaits>>
          ELSE /\ cf_err' = NewChatModelErr(cf_news)
               /\ UNCHANGED cf_ret
               /\ cf_pc' = AfterFailure(cf_attempt, cf_cfg)
               /\ IF AfterFailure(cf_attempt, cf_cfg) = "sleep"
                  THEN /\ cf_waits' = Append(cf_waits, BackoffWait(cf_attempt))
                       /\ cf_lateWaits' = IF cf_expired THEN cf_lateWaits + 1
                                          ELSE cf_lateWaits
                  ELSE UNCHANGED <<cf_waits, cf_lateWaits>>
    /\ UNCHANGED <<cf_custom, cf_env, cf_cfg, cf_attempt, cf_news, cf_expired,
                   cf_lateNews>>
    /\ UNCHANGED <<ctxDone, ctxWhen, retryBaseDelay, cl_vars, gw_vars, rs_vars, ss_vars, lc_vars, tp_vars>>

\* lines 133, 110: time.Sleep(wait) returns, attempt++ and the loop test
BackoffSleep ==
    /\ cf_pc = "sleep"
    /\ cf_attempt' = cf_attempt + 1
    /\ cf_pc' = LoopTest(cf_attempt + 1, cf_cfg)
    /\ UNCHANGED <<cf_custom, cf_env, cf_cfg, cf_news, cf_waits, cf_err, cf_ret,
                   cf_expired, cf_lateNews, cf_lateWaits>>
    /\ UNCHANGED <<ctxDone, ctxWhen, retryBaseDelay, cl_vars, gw_vars, rs_vars, ss_vars, lc_vars, tp_vars>>

(***************************************************************************)
(* The conversation of the template                                        *)
(*                                                                         *)
(* A text is the sequence of its pieces.  The literals of the template are *)
(* SysText1 "你是一个", SysText2 "。你需要用", SysText3 "的语气回答问题" and *)
(* what follows it, and QuestionPrefix "问题: ".                            *)
(***************************************************************************)
SysText1 == "You are a "

SysText2 == ". Answer in a tone that is "

SysText3 == ". (guidance)"

QuestionPrefix == "Question: "

Lit(t) == [kind |-> "lit", text |-> t]

Var(name) == [kind |-> "var", text |-> name]

\* schema.SystemMessage(text), schema.UserMessage(text) of a template
TemplateMessage(role, pieces) ==
    [kind |-> "message", role |-> role, pieces |-> pieces]

\* schema.MessagesPlaceholder(key, optional)
MessagesPlaceholder(key) ==
    [kind |-> "placeholder", role |-> key, pieces |-> <<>>]

SystemTemplate ==
    TemplateMessage("system",
        <<Lit(SysText1), Var("role"), Lit(SysText2), Var("style"), Lit(SysText3)>>)

QuestionTemplate ==
    TemplateMessage("user", <<Lit(QuestionPrefix), Var("question")>>)

\* createTemplate(): prompt.FromMessages(schema.FString, ...)
createTemplate_historyLast ==
    <<SystemTemplate, QuestionTemplate, MessagesPlaceholder("chat_history")>>

createTemplate ==
    <<SystemTemplate, MessagesPlaceholder("chat_history"), QuestionTemplate>>

\* a message of a conversation
Message(role, content) == [role |-> role, content |-> content]

\* the FString rendering of the pieces of a text with the variables vs
RECURSIVE RenderText(_, _)
RenderText(pieces, vs) ==
    IF pieces = <<>> THEN <<>>
    ELSE LET h == Head(pieces) IN
         (IF h.kind = "lit" THEN <<h.text>> ELSE vs[h.text])
         \o RenderText(Tail(pieces), vs)

\* ChatTemplate.Format(ctx, vs): a message of the template gives the message
\* with its text rendered, a placeholder gives the messages of its variable
\* as they are
RECURSIVE Format(_, _)
Format(template, vs) ==
    IF template = <<>> THEN <<>>
    ELSE LET h == Head(template) IN
         (IF h.kind = "placeholder" THEN vs[h.role]
          ELSE << Message(h.role, RenderText(h.pieces, vs)) >>)
         \o Format(Tail(template), vs)

\* the values of the variables of the template
PersonaRoles == {<<"encourager">>, <<"reviewer">>}

Styles == {<<"warm">>}

Questions == {<<"q1">>, <<"q2">>}

HistoryMessages ==
    {Message(r, c) : r \in {"user", "assistant"}, c \in {<<"h1">>, <<"h2">>}}

Histories == UNION {[1..n -> HistoryMessages] : n \in 0..MaxHistory}

\* createMessagesFromTemplate() is called, with these values for the
\* variables of the template
StartCreateMessages ==
    /\ Idle
    /\ \E r \in PersonaRoles, st \in Styles, q \in Questions, h \in Histories :
          tp_in' = [role |-> r, style |-> st, question |-> q, chat_history |-> h]
    /\ tp_pc' = "called"
    /\ UNCHANGED tp_out
    /\ UNCHANGED <<ctxDone, ctxWhen, retryBaseDelay, cl_vars, gw_vars, rs_vars, ss_vars, lc_vars, cf_vars>>

\* createMessagesFromTemplate() returns createTemplate().Format(ctx, vs)
createMessagesFromTemplate ==
    /\ tp_pc = "called"
    /\ tp_out' = Format(createTemplate, tp_in)
    /\ tp_pc' = "done"
    /\ UNCHANGED tp_in
    /\ UNCHANGED <<ctxDone, ctxWhen, retryBaseDelay, cl_vars, gw_vars, rs_vars, ss_vars, lc_vars, cf_vars>>

(***************************************************************************)
(* Specification                                                           *)
(***************************************************************************)
Init ==
    /\ ctxDone = FALSE
    /\ ctxWhen = "never"
    /\ retryBaseDelay = 1
    /\ cl_pc = "idle"
    /\ cl_err = NilErr
    /\ cl_out = FALSE
    /\ gw_pc = "idle"
    /\ gw_script = [k \in 1..maxRetries |-> "ok"]
    /\ gw_attempt = 0
    /\ gw_calls = 0
    /\ gw_err = NilErr
    /\ gw_waits = <<>>
    /\ gw_ret = NoRet
    /\ gw_timer = "none"
    /\ gw_ctxWaiter = FALSE
    /\ gw_sel = "none"
    /\ rs_pc = "idle"
    /\ rs_in = [items |-> <<>>, term |-> "eof"]
    /\ rs_chunk = NilChunk
    /\ rs_err = NilErr
    /\ rs_reads = 0
    /\ rs_ret = NilErr
    /\ sr = NewStream(<<>>, "eof")
    /\ sink = NewSink(0)
    /\ doneClosed = FALSE
    /\ w_pc = "none"
    /\ w_via = "none"
    /\ ge_pc = "idle"
    /\ ge_outcome = "ok"
    /\ ge_calls = 0
    /\ ge_ret = NoRet
    /\ st_pc = "idle"
    /\ st_outcome = "ok"
    /\ st_calls = 0
    /\ st_ret = [out |-> NoReader, err |-> NilErr]
    /\ lc_pc = "idle"
    /\ lc_env = MkEnv(<<>>, <<>>, <<>>, <<>>, <<>>, <<>>)
    /\ lc_ret = [cfg |-> NilConfig, err |-> NilErr]
    /\ cf_pc = "idle"
    /\ cf_custom = NilConfig
    /\ cf_env = MkEnv(<<>>, <<>>, <<>>, <<>>, <<>>, <<>>)
    /\ cf_cfg = NilConfig
    /\ cf_attempt = 0
    /\ cf_news = 0
    /\ cf_waits = <<>>
    /\ cf_err = NilErr
    /\ cf_ret = NoClient
    /\ cf_expired = FALSE
    /\ cf_lateNews = 0
    /\ cf_lateWaits = 0
    /\ tp_pc = "idle"
    /\ tp_in = [role |-> <<>>, style |-> <<>>, question |-> <<>>, chat_history |-> <<>>]
    /\ tp_out = <<>>

Next ==
    \/ StartClassify
    \/ Classify
    \/ StartGenerateWithRetry
    \/ GenerateAttempt
    \/ SelectPark
    \/ WaitElapsed
    \/ WaitCanceled
    \/ TimerFires
    \/ StartReportStream
    \/ DrainRecv
    \/ DrainWrite
    \/ WatcherDone
    \/ WatcherCancel
    \/ Cancel
    \/ StartGenerate
    \/ generate
    \/ StartStream
    \/ stream
    \/ StartLoadModelConfig
    \/ LoadConfig
    \/ StartCreateModel
    \/ ResolveConfig
    \/ DeadlineElapses
    \/ NewChatModelCall
    \/ NewChatModelReturn
    \/ BackoffSleep
    \/ StartCreateMessages
    \/ createMessagesFromTemplate

Spec == Init /\ [][Next]_vars

\* the Go scheduler runs every goroutine that can take a step: the caller of
\* generateWithRetry, the drain loop and the watcher; nothing obliges the owner
\* of the context to cancel it; a sequence with automatic close enabled is
\* released once unused
Fairness ==
    /\ WF_vars(GenerateAttempt)
    /\ WF_vars(SelectPark)
    /\ WF_vars(TimerFires)
    /\ WF_vars(WaitElapsed)
    /\ WF_vars(WaitCanceled)
    /\ WF_vars(DrainRecv)
    /\ WF_vars(DrainWrite)
    /\ WF_vars(WatcherDone \/ WatcherCancel)

FairSpec == Spec /\ Fairness

(***************************************************************************)
(* Properties                                                              *)
(***************************************************************************)
\* the outcomes of the remote whose error the spec calls retryable: a network
\* error reporting a timeout or a temporary condition
RetryableOutcome(o) ==
    o \in {"net_timeout", "net_temporary", "net_both", "wrapped_net_timeout"}

FailingOutcome(o) == o # "ok"

\* C1: with retryable failures only, generateWithRetry makes at most
\* maxRetries calls, makes no call after a successful one, returns the
\* message of the successful call with no error, and when the first k < 3
\* calls fail retryably and call k+1 succeeds (the waits not being cancelled)
\* exactly k+1 calls are made.
C1_RetryUntilSuccess ==
    /\ gw_calls <= maxRetries
    /\ \A j \in 1..(gw_calls - 1) : FailingOutcome(gw_script[j])
    /\ (gw_pc = "done" /\ gw_calls >= 1 /\ gw_script[gw_calls] = "ok")
          => gw_ret = [out |-> Msg(gw_calls), err |-> NilErr]
    /\ \A k \in 0..(maxRetries - 1) :
          ( /\ gw_pc = "done"
            /\ ~ctxDone
            /\ \A j \in 1..k : RetryableOutcome(gw_script[j])
            /\ gw_script[k + 1] = "ok" )
          => (gw_calls = k + 1 /\ gw_ret = [out |-> Msg(k + 1), err |-> NilErr])

\* C1 witness: the remote failed once with a retryable error, then succeeded,
\* and generateWithRetry returned the second call's message after 2 calls
C1_Witness ==
    /\ gw_pc = "done"
    /\ RetryableOutcome(gw_script[1])
    /\ gw_script[2] = "ok"
    /\ gw_calls = 2
    /\ gw_ret = [out |-> Msg(2), err |-> NilErr]

\* C2: when the first call fails with an error that is not retryable,
\* generateWithRetry has returned after exactly 1 call and no wait, with no
\* message and an error in whose chain errors.Is finds the call's error.
C2_NonRetryableFailsAtOnce ==
    ( /\ gw_calls >= 1
      /\ FailingOutcome(gw_script[1])
      /\ ~RetryableOutcome(gw_script[1]) )
    => ( /\ gw_pc = "done"
         /\ gw_calls = 1
         /\ gw_waits = <<>>
         /\ gw_ret.out = NoMsg
         /\ errorsIs(gw_ret.err, RemoteErr(gw_script[1], 1)) )

\* C2 witness: the first call failed with an opaque error and the function
\* has returned
C2_Witness ==
    /\ gw_pc = "done"
    /\ gw_script[1] \in {"generic", "wrapped_generic", "net_plain"}
    /\ gw_calls = 1
    /\ gw_ret.err # NilErr

\* C3: once the context has been cancelled while generateWithRetry was in
\* an inter-attempt wait whose delay had not elapsed, no further remote call
\* is made (the function is in that wait or has returned, with as many
\* waits as calls, at least one), and it returns no message and an error
\* that wraps the context's cancellation error and not the generation error.
C3_CancelDuringWait ==
    ctxWhen = "wait"
    => ( /\ gw_pc \in {"wait", "done"}
         /\ gw_calls >= 1
         /\ Len(gw_waits) = gw_calls
         /\ gw_pc = "done"
               => ( /\ gw_ret.out = NoMsg
                    /\ errorsIs(gw_ret.err, ctxErr)
                    /\ ~errorsIs(gw_ret.err, gw_err) ) )

\* the part of C3 that holds: a wait that is left while the context is
\* cancelled and the cancellation woke the parked goroutine, or the timer
\* has not fired, is left by the return of the cancellation error
CancelSeenFirstEndsWait ==
    [][ ( /\ gw_pc = "wait"
          /\ ctxDone
          /\ gw_sel = "ctx" \/ gw_timer = "pending"
          /\ gw_pc' # gw_pc )
        => ( /\ gw_pc' = "done"
             /\ gw_calls' = gw_calls
             /\ gw_calls >= 1
             /\ gw_ret'.out = NoMsg
             /\ errorsIs(gw_ret'.err, ctxErr)
             /\ ~errorsIs(gw_ret'.err, gw_err) ) ]_vars

\* C4: isRetryableError(err) is true exactly when err's chain holds a
\* network error whose timeout or temporary flag is set; false for nil, for
\* a network error with neither flag and for every other error.
C4_RetryableIffNetTimeoutOrTemporary ==
    cl_pc = "done"
    => ( cl_out <=> \E i \in 1..Len(cl_err) :
                       /\ cl_err[i].kind = "net"
                       /\ (cl_err[i].timeout \/ cl_err[i].temporary) )

\* C4 witness: a wrapped network error with only the temporary flag set has
\* been classified retryable
C4_Witness ==
    /\ cl_pc = "done"
    /\ cl_out
    /\ Len(cl_err) > 1
    /\ \E i \in 1..Len(cl_err) :
          cl_err[i].kind = "net" /\ cl_err[i].temporary /\ ~cl_err[i].timeout

NonEmptyChunk(c) == ~c.isNil /\ c.content # ""

\* C5: for a sequence of n chunks with non-empty content followed by
\* end-of-stream, no cancellation and no failing write,
\* reportStreamWithContext has written exactly the n payloads, in order, and
\* returns nil; a read that reports io.EOF never yields an error.
C5_DrainsAllChunks ==
    /\ ( /\ rs_pc = "returned"
         /\ ~ctxDone
         /\ rs_in.term = "eof"
         /\ \A i \in 1..Len(rs_in.items) : NonEmptyChunk(rs_in.items[i])
         /\ sink.failAt \notin 1..Len(rs_in.items) )
       => ( /\ sink.writes = [i \in 1..Len(rs_in.items) |-> rs_in.items[i].content]
            /\ rs_reads = Len(rs_in.items) + 1
            /\ rs_ret = NilErr )
    /\ (rs_pc = "returned" /\ rs_err = EOF) => rs_ret = NilErr

\* C5 witness: 3 non-empty chunks then end-of-stream gave 3 writes and nil
C5_Witness ==
    /\ rs_pc = "returned"
    /\ ~ctxDone
    /\ Len(rs_in.items) = 3
    /\ \A i \in 1..3 : NonEmptyChunk(rs_in.items[i])
    /\ Len(sink.writes) = 3
    /\ rs_err = EOF
    /\ rs_ret = NilErr

Draining == rs_pc \in {"recv", "write"}

\* the drain loop is in a read that cannot return: nothing to deliver, the
\* producer stalled and the sequence not closed
BlockedInRecv == rs_pc = "recv" /\ Recv(sr) = {}

\* C6 as stated: once the context has been cancelled while
\* reportStreamWithContext was draining, the watcher closes the sequence and
\* the drain loop returns.
C6_CancelClosesAndEndsDrain ==
    (Draining /\ ctxWhen \in {"recv", "write"})
    ~> (rs_pc = "returned" /\ w_via = "cancel" /\ sr.closed)

\* C6: once the context is cancelled while reportStreamWithContext is
\* draining, the drain loop eventually returns; a drain loop blocked in a
\* read is released by the watcher closing the sequence; and the watcher
\* closes the sequence exactly when it leaves by the case of ctx.Done(),
\* not when the draining has ended and it leaves by the case of done.
C6_CancelEndsDrain ==
    /\ [](w_pc = "exited" => (sr.closed <=> w_via = "cancel"))
    /\ (Draining /\ ctxDone) ~> (rs_pc = "returned")
    /\ (BlockedInRecv /\ ctxDone) ~> (sr.closed /\ w_via = "cancel")

\* C6 witness: the producer stalled, the watcher closed the sequence on
\* cancellation and the drain loop has returned
C6_Witness ==
    /\ rs_pc = "returned"
    /\ rs_in.term = "stall"
    /\ ctxWhen = "recv"
    /\ sr.closed
    /\ w_via = "cancel"

\* C7: when reportStreamWithContext has returned and the context is not
\* cancelled, the watcher eventually exits, by the case <-done unless the
\* context is cancelled after all.
C7_WatcherExitsAfterDrain ==
    (rs_pc = "returned" /\ ~ctxDone)
    ~> (w_pc = "exited" /\ (w_via = "done" \/ ctxDone))

\* C7 witness: the drain ended, the context was never cancelled and the
\* watcher left its select by the case <-done
C7_Witness ==
    /\ rs_pc = "returned"
    /\ ~ctxDone
    /\ w_pc = "exited"
    /\ w_via = "done"

\* C8: when reportStreamWithContext has returned success after
\* end-of-stream, its watcher has exited.
C8_ReturnedImpliesWatcherExited ==
    (rs_pc = "returned" /\ rs_err = EOF /\ rs_ret = NilErr) => w_pc = "exited"

\* a read has reported an error other than end-of-stream
ReadFailed == rs_err \notin {NilErr, EOF}

\* C9: the step in which a read reports an error other than io.EOF is the
\* return of reportStreamWithContext with an error wrapping the read error,
\* and no read and no write follows.
C9_ReadErrorEndsDrain ==
    [][ /\ ReadFailed' => (rs_pc' = "returned" /\ errorsIs(rs_ret', rs_err'))
        /\ ReadFailed => UNCHANGED <<rs_reads, sink, rs_ret, rs_pc>> ]_vars

\* C9 witness: a read failed after a chunk had been written
C9_Witness ==
    /\ rs_pc = "returned"
    /\ rs_err = ReadErr
    /\ Len(sink.writes) >= 1
    /\ errorsIs(rs_ret, ReadErr)

\* the failing write of the sink has been made
WriteFailed == sink.failAt >= 1 /\ Len(sink.writes) >= sink.failAt

\* C10: the step in which a write to the sink fails is the return of
\* reportStreamWithContext with an error wrapping the write error, and no
\* read and no write follows.
C10_WriteErrorEndsDrain ==
    [][ /\ WriteFailed' => (rs_pc' = "returned" /\ errorsIs(rs_ret', WriteErr))
        /\ WriteFailed => UNCHANGED <<rs_reads, sink, rs_ret, rs_pc>> ]_vars

\* C10 witness: the second write failed while chunks remained unread
C10_Witness ==
    /\ rs_pc = "returned"
    /\ sink.failAt = 2
    /\ Len(sink.writes) = 2
    /\ sr.items # <<>>
    /\ errorsIs(rs_ret, WriteErr)

\* C11: a read that returns, without error, a nil chunk or a chunk with
\* empty content leaves the drain loop at its next read: no write, no
\* return, done not closed.
C11_EmptyChunkSkipped ==
    [][ ( /\ rs_reads' = rs_reads + 1
          /\ rs_err' = NilErr
          /\ ~NonEmptyChunk(rs_chunk') )
        => ( /\ rs_pc' = "recv"
             /\ sink' = sink
             /\ rs_ret' = rs_ret
             /\ doneClosed' = doneClosed ) ]_vars

\* C11 witness: a nil chunk and an empty chunk were read, then a chunk with
\* content, which is the only write, and the drain ended at end-of-stream
C11_Witness ==
    /\ rs_pc = "returned"
    /\ rs_in.items = << NilChunk, Chunk(""), Chunk("a") >>
    /\ rs_reads = 4
    /\ sink.writes = << "a" >>
    /\ rs_ret = NilErr

C13_CancelYieldsCancellationError ==
    (rs_pc = "returned" /\ ctxWhen \in {"recv", "write"})
    => errorsIs(rs_ret, ctxErr)

\* C14: when the call of llm.Generate fails, generate returns no message and
\* an error in whose chain errors.Is finds the error of the call.
C14_GenerateWrapsError ==
    (ge_pc = "done" /\ FailingOutcome(ge_outcome))
    => ( /\ ge_ret.out = NoMsg
         /\ ge_ret.err # NilErr
         /\ ge_ret.err # RemoteErr(ge_outcome, 1)
         /\ errorsIs(ge_ret.err, RemoteErr(ge_outcome, 1)) )

\* C14 witness: the remote failed with an opaque error and generate returned
C14_Witness ==
    /\ ge_pc = "done"
    /\ ge_outcome = "generic"
    /\ errorsIs(ge_ret.err, GenericErr("fatal", 1))

\* C15: generate makes exactly one call of llm.Generate, whatever its
\* outcome (a retryable error included), and on success returns the message
\* of that call with no error.
C15_GenerateCallsOnce ==
    /\ ge_calls <= 1
    /\ ge_pc = "done" => ge_calls = 1
    /\ (ge_pc = "done" /\ ge_outcome = "ok")
          => ge_ret = [out |-> Msg(1), err |-> NilErr]

\* C15 witness: generate has returned both after a success and after a
\* retryable failure with one call made; this is the success
C15_Witness ==
    /\ ge_pc = "done"
    /\ ge_outcome = "ok"
    /\ ge_calls = 1
    /\ ge_ret.out = Msg(1)

\* C16: stream makes exactly one call of llm.Stream; on success it returns
\* the reader of that call with no error; on failure it returns no reader
\* and an error in whose chain errors.Is finds the error of the call.
C16_StreamCallsOnce ==
    /\ st_calls <= 1
    /\ st_pc = "done" => st_calls = 1
    /\ (st_pc = "done" /\ st_outcome = "ok")
          => st_ret = [out |-> Reader(1), err |-> NilErr]
    /\ (st_pc = "done" /\ FailingOutcome(st_outcome))
          => ( /\ st_ret.out = NoReader
               /\ errorsIs(st_ret.err, RemoteErr(st_outcome, 1)) )

\* C16 witness: the remote's Stream failed with a network error and stream
\* returned no reader and the wrapped error
C16_Witness ==
    /\ st_pc = "done"
    /\ st_outcome = "net_timeout"
    /\ st_calls = 1
    /\ st_ret.out = NoReader
    /\ errorsIs(st_ret.err, NetErr(1, TRUE, FALSE))

(***************************************************************************)
(* Configuration loading                                                   *)
(***************************************************************************)
\* LoadModelConfig has returned, in an environment that has the two
\* required settings
LoadedWithRequired ==
    /\ lc_pc = "done"
    /\ Getenv(lc_env, "OPENAI_API_KEY") # <<>>
    /\ Getenv(lc_env, "OPENAI_MODEL_NAME") # <<>>

\* LoadModelConfig returned no configuration and an error for setting key
RejectedFor(key) ==
    /\ lc_ret.cfg.isNil
    /\ lc_ret.err # NilErr
    /\ lc_ret.err[1].tag = key

Count(str, set) == Cardinality({i \in 1..Len(str) : str[i] \in set})

Unsigned(str) == IF str # <<>> /\ Head(str) = "-" THEN Tail(str) ELSE str

\* str is a decimal numeral: digits only
IsNonNegInt(str) == str # <<>> /\ Count(str, Digits) = Len(str)

\* str is a number: an optional sign, then digits with one period at most
IsNumber(str) ==
    LET body == Unsigned(str) IN
    /\ Count(body, Digits) >= 1
    /\ Count(body, {"."}) <= 1
    /\ Count(body, Digits \cup {"."}) = Len(body)

\* the unsigned numbers of a duration followed by the unit of seconds
SecondsGroups ==
    {n \o <<"s">> : n \in {b \in Strs : IsNumber(b) /\ Unsigned(b) = b}}

\* the concatenations of one to n groups
RECURSIVE GroupSeqs(_)
GroupSeqs(n) ==
    IF n <= 1 THEN SecondsGroups
    ELSE GroupSeqs(n - 1)
         \cup {a \o b : a \in GroupSeqs(n - 1), b \in SecondsGroups}

\* the durations without a sign: 0, or groups of a number and a unit
DurationBodies == {<<"0">>} \cup GroupSeqs(MaxStr \div 2)

\* str is a duration: an optional sign before one of DurationBodies
IsDuration(str) == Unsigned(str) \in DurationBodies

\* C17: LoadModelConfig returns a configuration only if OPENAI_API_KEY and
\* OPENAI_MODEL_NAME are both non-empty, and the configuration carries them;
\* when OPENAI_API_KEY is missing it returns no configuration and the error
\* that names OPENAI_API_KEY, whatever the other settings are; when loading
\* fails inside createOpenAIChatModelWithConfig the function ends without a
\* call of openai.NewChatModel and without a client.
C17_RequiredSettings ==
    /\ (lc_pc = "done" /\ ~lc_ret.cfg.isNil)
          => ( /\ lc_ret.err = NilErr
               /\ lc_ret.cfg.APIKey # <<>>
               /\ lc_ret.cfg.Model # <<>>
               /\ lc_ret.cfg.APIKey = Getenv(lc_env, "OPENAI_API_KEY")
               /\ lc_ret.cfg.Model = Getenv(lc_env, "OPENAI_MODEL_NAME") )
    /\ (lc_pc = "done" /\ Getenv(lc_env, "OPENAI_API_KEY") = <<>>)
          => lc_ret = Failed(RequiredErr("OPENAI_API_KEY"))
    /\ (cf_pc \notin {"idle", "entered"} /\ cf_custom.isNil
          /\ ( \/ Getenv(cf_env, "OPENAI_API_KEY") = <<>>
               \/ Getenv(cf_env, "OPENAI_MODEL_NAME") = <<>> ))
          => cf_cfg.isNil
    /\ (cf_pc \notin {"idle", "entered"} /\ cf_cfg.isNil)
          => ( /\ cf_pc = "fatal"
               /\ cf_err # NilErr
               /\ cf_news = 0
               /\ cf_ret = NoClient )

\* C17 witness: LoadModelConfig has failed for the missing key in an
\* environment whose model name is set and whose temperature is malformed
C17_Witness ==
    /\ lc_pc = "done"
    /\ Getenv(lc_env, "OPENAI_API_KEY") = <<>>
    /\ Getenv(lc_env, "OPENAI_MODEL_NAME") # <<>>
    /\ Getenv(lc_env, "OPENAI_TEMPERATURE") = <<"a">>
    /\ lc_ret.cfg.isNil
    /\ lc_ret.err = RequiredErr("OPENAI_API_KEY")

\* C18: LoadModelConfig returns an error and no configuration for every
\* OPENAI_MAX_RETRIES that is set and is not a non-negative integer, and
\* every configuration it returns has MaxRetries >= 0.
C18_MaxRetriesNonNegative ==
    lc_pc = "done" =>
        /\ ( /\ Getenv(lc_env, "OPENAI_MAX_RETRIES") # <<>>
             /\ ~IsNonNegInt(Getenv(lc_env, "OPENAI_MAX_RETRIES")) )
              => (lc_ret.cfg.isNil /\ lc_ret.err # NilErr)
        /\ ~lc_ret.cfg.isNil => lc_ret.cfg.MaxRetries >= 0

\* C19: with the required settings present, an OPENAI_TEMPERATURE that is
\* set and is not a number makes LoadModelConfig return no configuration and
\* an error for OPENAI_TEMPERATURE; with the temperature absent or a number,
\* an OPENAI_TIMEOUT that is set and is not a duration makes it return no
\* configuration and an error for OPENAI_TIMEOUT.
C19_MalformedOverrideRejected ==
    LoadedWithRequired =>
        LET tempStr    == Getenv(lc_env, "OPENAI_TEMPERATURE")
            timeoutStr == Getenv(lc_env, "OPENAI_TIMEOUT")
        IN  /\ (tempStr # <<>> /\ ~IsNumber(tempStr))
                  => RejectedFor("OPENAI_TEMPERATURE")
            /\ ( /\ tempStr = <<>> \/ IsNumber(tempStr)
                 /\ timeoutStr # <<>>
                 /\ ~IsDuration(timeoutStr) )
                  => RejectedFor("OPENAI_TIMEOUT")

\* C20: with the required settings present and every override that is set
\* well-formed, LoadModelConfig returns a configuration and no error; its
\* endpoint is the one of the environment (none when absent); an absent
\* temperature, timeout or retry count leaves the default (0.7, 30 s, 3) and
\* one that is set gives the field its value ("0.3" gives 0.3, "3s" gives
\* 3 s, "0" gives 0).
C20_DefaultsAndOverrides ==
    LET tempStr    == Getenv(lc_env, "OPENAI_TEMPERATURE")
        timeoutStr == Getenv(lc_env, "OPENAI_TIMEOUT")
        retriesStr == Getenv(lc_env, "OPENAI_MAX_RETRIES")
        cfg        == lc_ret.cfg
    IN  ( /\ LoadedWithRequired
          /\ tempStr = <<>> \/ IsNumber(tempStr)
          /\ timeoutStr = <<>> \/ IsDuration(timeoutStr)
          /\ retriesStr = <<>> \/ IsNonNegInt(retriesStr) )
        => ( /\ lc_ret.err = NilErr
             /\ ~cfg.isNil
             /\ cfg.BaseURL = Getenv(lc_env, "OPENAI_BASE_URL")
             /\ cfg.Temperature =
                    IF tempStr = <<>> THEN 700 ELSE SscanfFloat(tempStr).val
             /\ cfg.Timeout =
                    IF timeoutStr = <<>> THEN 30000 ELSE ParseDuration(timeoutStr).val
             /\ cfg.MaxRetries =
                    IF retriesStr = <<>> THEN 3 ELSE DecVal(retriesStr)
             /\ tempStr = <<"0", ".", "3">> => cfg.Temperature = 300
             /\ timeoutStr = <<"3", "s">> => cfg.Timeout = 3000
             /\ retriesStr = <<"0">> => cfg.MaxRetries = 0 )

\* C20 witness: LoadModelConfig has returned for an environment that sets
\* the timeout to 3 s and no other override
C20_Witness ==
    /\ LoadedWithRequired
    /\ Getenv(lc_env, "OPENAI_BASE_URL") = <<>>
    /\ Getenv(lc_env, "OPENAI_TEMPERATURE") = <<>>
    /\ Getenv(lc_env, "OPENAI_TIMEOUT") = <<"3", "s">>
    /\ Getenv(lc_env, "OPENAI_MAX_RETRIES") = <<>>
    /\ lc_ret.cfg.Timeout = 3000
    /\ lc_ret.cfg.MaxRetries = 3
    /\ lc_ret.cfg.Temperature = 700
    /\ lc_ret.cfg.BaseURL = <<>>

\* the timeout half of C19 alone
TimeoutRejectedWhenMalformed ==
    LoadedWithRequired =>
        LET tempStr    == Getenv(lc_env, "OPENAI_TEMPERATURE")
            timeoutStr == Getenv(lc_env, "OPENAI_TIMEOUT")
        IN  ( /\ tempStr = <<>> \/ IsNumber(tempStr)
              /\ timeoutStr # <<>>
              /\ ~IsDuration(timeoutStr) )
              => RejectedFor("OPENAI_TIMEOUT")

(***************************************************************************)
(* Client construction                                                     *)
(***************************************************************************)
\* the last allowed attempt of createOpenAIChatModelWithConfig has failed
Exhausted ==
    /\ ~cf_cfg.isNil
    /\ cf_cfg.MaxRetries >= 0
    /\ cf_news = cf_cfg.MaxRetries + 1
    /\ cf_pc # "calling"
    /\ cf_err # NilErr

\* C21: once every construction attempt has failed, the caller of
\* createOpenAIChatModelWithConfig has control again, with an error.
C21_ExhaustionReturnsError ==
    Exhausted => (cf_pc = "returned" /\ cf_err # NilErr)

\* C22: createOpenAIChatModelWithConfig returns only the client of a call
\* of openai.NewChatModel that gave no error, it has no client to hand over
\* before it returns, and once the last allowed attempt has failed it does
\* not return.
C22_NoInvalidClient ==
    /\ cf_pc = "returned"
          => ( /\ cf_err = NilErr
               /\ cf_news >= 1
               /\ cf_ret = Client(cf_news)
               /\ cf_ret # NoClient )
    /\ cf_pc # "returned" => cf_ret = NoClient
    /\ Exhausted => (cf_pc = "fatal" /\ cf_ret = NoClient)

\* C22 witness: the function returned the client of its second attempt
C22_Witness ==
    /\ cf_pc = "returned"
    /\ cf_news = 2
    /\ cf_ret = Client(2)

\* C23: once the construction timeout has elapsed no call of
\* openai.NewChatModel and no backoff wait is started and no client is
\* returned.
C23_TimeoutBoundsConstruction ==
    /\ cf_lateNews = 0
    /\ cf_lateWaits = 0
    /\ cf_pc = "returned" => ~cf_expired

\* C24: with MaxRetries m >= 0 the function makes m+1 calls of
\* openai.NewChatModel at most, and exactly m+1 when it ends on the
\* exhausted attempts; no call follows a success; the i-th wait is i
\* seconds; one wait lies between two successive calls and none follows the
\* last call, so that m waits precede the exhaustion.
C24_AttemptsAndLinearBackoff ==
    (~cf_cfg.isNil /\ cf_cfg.MaxRetries >= 0) =>
        /\ cf_news <= cf_cfg.MaxRetries + 1
        /\ cf_waits = [i \in 1..Len(cf_waits) |-> i]
        /\ Len(cf_waits) = IF cf_pc \in {"calling", "returned", "fatal"}
                           THEN cf_news - 1 ELSE cf_news
        /\ cf_news = IF cf_pc \in {"calling", "sleep", "returned", "fatal"}
                     THEN cf_attempt + 1 ELSE cf_attempt
        /\ cf_pc = "returned" => cf_ret = Client(cf_news)
        /\ cf_pc = "fatal"
              => ( /\ cf_news = cf_cfg.MaxRetries + 1
                   /\ Len(cf_waits) = cf_cfg.MaxRetries )

\* C24 witness: with MaxRetries 2 the three attempts have failed, after the
\* waits of 1 and 2 seconds
C24_Witness ==
    /\ cf_pc = "fatal"
    /\ cf_cfg.MaxRetries = 2
    /\ cf_news = 3
    /\ cf_waits = <<1, 2>>

(***************************************************************************)
(* The retry loop: give-up, delays, order of calls and waits               *)
(***************************************************************************)
\* generateWithRetry has returned the error of a wait ended by cancellation
EndedByCancel == gw_pc = "done" /\ gw_ret.err = CanceledErr(gw_err)

\* generateWithRetry has returned on a failed call
GaveUp == gw_pc = "done" /\ gw_ret.err # NilErr /\ ~EndedByCancel

\* C25: when generateWithRetry gives up on a failed call (a non-retryable
\* error at any attempt, or a failure of the 3rd attempt) no wait follows
\* that call, and the error returned wraps the error of that call, the most
\* recent one, and carries the number of calls made; after three retryable
\* failures the number is 3 and the error wrapped is the third call's.
C25_GiveUpCarriesCountAndLastError ==
    /\ GaveUp
          => ( /\ gw_ret = [out |-> NoMsg,
                            err |-> Errorf("after retries", gw_calls,
                                           RemoteErr(gw_script[gw_calls], gw_calls))]
               /\ gw_ret.err[1].n = gw_calls
               /\ errorsIs(gw_ret.err, RemoteErr(gw_script[gw_calls], gw_calls))
               /\ Len(gw_waits) = gw_calls - 1
               /\ \/ ~RetryableOutcome(gw_script[gw_calls])
                  \/ gw_calls = 3 )
    /\ (gw_pc = "done" /\ \A i \in 1..3 : RetryableOutcome(gw_script[i]))
          => (GaveUp /\ gw_calls = 3 /\ gw_ret.err[1].n = 3) \/ EndedByCancel
    /\ ( /\ gw_pc = "done"
         /\ ~EndedByCancel
         /\ FailingOutcome(gw_script[gw_calls])
         /\ ~RetryableOutcome(gw_script[gw_calls]) \/ gw_calls = 3 )
          => GaveUp

\* C25 witness: three retryable failures, the error returned carries 3 and
\* wraps the error of the third call
C25_Witness ==
    /\ GaveUp
    /\ \A i \in 1..3 : RetryableOutcome(gw_script[i])
    /\ gw_calls = 3
    /\ gw_ret.err = Errorf("after retries", 3, RemoteErr(gw_script[3], 3))

\* C27: the i-th wait of a run of generateWithRetry, the one that follows
\* the failure of attempt index i-1, is retryBaseDelay * i.
C27_LinearDelay ==
    \A i \in 1..Len(gw_waits) : gw_waits[i] = retryBaseDelay * i

\* C27 witness: with retryBaseDelay 2 the waits were 2 and 4
C27_Witness ==
    /\ retryBaseDelay = 2
    /\ gw_waits = <<2, 4>>

\* C28: generateWithRetry never returns the error of the fall-through after
\* its loop, and the loop is never left by its test: the attempt index stays
\* below maxRetries.
C28_FallThroughUnreachable ==
    /\ gw_ret.err # UnexpectedErr
    /\ gw_attempt < maxRetries

\* C28 witness: the run reached its third attempt and returned from it
C28_Witness ==
    /\ gw_pc = "done"
    /\ gw_attempt = maxRetries - 1
    /\ gw_calls = maxRetries

\* C29: once generateWithRetry has returned, no timer of a wait is pending
\* and nothing of it waits on ctx.Done(); nothing waits on ctx.Done() either
\* when it is at a call.
C29_NoLeakedTimerOrWaiter ==
    /\ gw_pc = "done" => (gw_timer # "pending" /\ ~gw_ctxWaiter)
    /\ gw_pc = "call" => (gw_timer = "none" /\ ~gw_ctxWaiter)

\* the waiter half of C29 alone
NoLeakedWaiter == gw_pc \in {"call", "done"} => ~gw_ctxWaiter

\* C30: calls and waits alternate: at a call every earlier call was followed
\* by a wait; in a wait and after a cancelled wait there are as many waits
\* as calls; a run that ends on the result of a call has one wait less than
\* calls; every wait follows a retryable failure of attempt 0 or 1, so there
\* are 2 waits at most.
C30_CallsAndWaitsAlternate ==
    /\ Len(gw_waits) <= 2
    /\ \A i \in 1..Len(gw_waits) : i <= gw_calls /\ RetryableOutcome(gw_script[i])
    /\ gw_pc = "call" => (gw_calls = gw_attempt /\ Len(gw_waits) = gw_calls)
    /\ gw_pc = "wait"
          => (gw_calls = gw_attempt + 1 /\ Len(gw_waits) = gw_calls /\ gw_attempt <= 1)
    /\ EndedByCancel => Len(gw_waits) = gw_calls
    /\ (gw_pc = "done" /\ ~EndedByCancel)
          => (gw_calls >= 1 /\ Len(gw_waits) = gw_calls - 1)

\* C30 witness: the third call is about to start, after two waits
C30_Witness ==
    /\ gw_pc = "call"
    /\ gw_attempt = 2
    /\ gw_calls = 2
    /\ Len(gw_waits) = 2

(***************************************************************************)
(* Conversation assembly                                                   *)
(***************************************************************************)
RolesOf(msgs) == [i \in 1..Len(msgs) |-> msgs[i].role]

\* the history is two turns: user, assistant, user, assistant
TwoTurnHistory ==
    RolesOf(tp_in.chat_history) = <<"user", "assistant", "user", "assistant">>

SixInOrder ==
    /\ Len(tp_out) = 6
    /\ RolesOf(tp_out) =
          <<"system", "user", "assistant", "user", "assistant", "user">>
    /\ SubSeq(tp_out, 2, 5) = tp_in.chat_history

\* C26 as stated: with a 2-turn history the conversation has 6 messages with
\* the roles system, user, assistant, user, assistant, user, the history
\* unchanged in the middle, and the content of the last message equal to the
\* question given.
C26_ContentsEqualInputs ==
    (tp_pc = "done" /\ TwoTurnHistory)
        => (SixInOrder /\ tp_out[6].content = tp_in.question)

\* C26 amended: with a 2-turn history the conversation has 6 messages with
\* the roles system, user, assistant, user, assistant, user and the history
\* unchanged in the middle; the content of the first is the guidance of the
\* template with the role and the style of the persona in their places, the
\* content of the last is the prefix of the template followed by the
\* question; with any history the conversation is the system message, the
\* history, the question message.
C26_TemplateOrder ==
    tp_pc = "done" =>
        LET system   == Message("system",
                            <<SysText1>> \o tp_in.role \o <<SysText2>>
                            \o tp_in.style \o <<SysText3>>)
            question == Message("user", <<QuestionPrefix>> \o tp_in.question)
        IN  /\ tp_out = <<system>> \o tp_in.chat_history \o <<question>>
            /\ TwoTurnHistory => SixInOrder

\* C26 witness: the conversation of a persona, a 2-turn history and a
\* question has been assembled
C26_Witness ==
    /\ tp_pc = "done"
    /\ TwoTurnHistory
    /\ Len(tp_out) = 6
    /\ tp_out[6].content = <<QuestionPrefix>> \o tp_in.question
    /\ tp_out[2] = tp_in.chat_history[1]

(***************************************************************************)
(* Cancellation outside a wait                                             *)
(***************************************************************************)
\* generateWithRetry has returned on the result of a call, not from a wait
EndedOnCall == gw_pc = "done" /\ Len(gw_waits) = gw_calls - 1

\* C31: generateWithRetry makes its first call whatever the state of the
\* context, also when it is cancelled on entry; it returns the cancellation
\* error only from a wait; and when the context is cancelled and the run
\* ends on a call that failed (non-retryably, or as the third attempt), the
\* error returned is the wrapped error of that call, not the cancellation
\* error.
C31_CancelSeenOnlyInWait ==
    /\ gw_pc \in {"wait", "done"} => gw_calls >= 1
    /\ EndedByCancel => (ctxDone /\ Len(gw_waits) = gw_calls)
    /\ (EndedOnCall /\ ctxDone /\ FailingOutcome(gw_script[gw_calls]))
          => ( /\ gw_ret.err = Errorf("after retries", gw_calls,
                                      RemoteErr(gw_script[gw_calls], gw_calls))
               /\ ~errorsIs(gw_ret.err, ctxErr)
               /\ ~EndedByCancel )

\* C31 witness: the context was cancelled on entry, the first call was made
\* and failed non-retryably, and its wrapped error was returned
C31_Witness ==
    /\ gw_pc = "done"
    /\ ctxWhen = "entry"
    /\ gw_calls = 1
    /\ FailingOutcome(gw_script[1])
    /\ ~RetryableOutcome(gw_script[1])
    /\ gw_ret.err = Errorf("after retries", 1, RemoteErr(gw_script[1], 1))

(***************************************************************************)
(* The watcher and the sink                                                *)
(***************************************************************************)
\* C32: a call of reportStreamWithContext has one watcher, started with the
\* call; sr.Close() is called once at most, by the watcher taking the case
\* of ctx.Done(), so only with the context cancelled; a sequence on which
\* the watcher did not take that case has had no call of Close, whatever the
\* way the drain loop ended.
C32_OneWatcherClosesAtMostOnce ==
    /\ rs_pc = "idle" <=> w_pc = "none"
    /\ sr.closeCalls <= 1
    /\ sr.closeCalls = (IF w_via = "cancel" THEN 1 ELSE 0)
    /\ w_via = "cancel" => (ctxDone /\ w_pc = "exited")
    /\ (rs_pc = "returned" /\ w_via # "cancel") => sr.closeCalls = 0

\* C32 witness: the watcher has closed the sequence after a cancellation and
\* the drain loop has returned
C32_Witness ==
    /\ rs_pc = "returned"
    /\ ctxDone
    /\ w_via = "cancel"
    /\ sr.closeCalls = 1

\* the contents of the chunks of items that are written: not nil, not empty
RECURSIVE Payloads(_)
Payloads(items) ==
    IF items = <<>> THEN <<>>
    ELSE (IF NonEmptyChunk(Head(items)) THEN <<Head(items).content>> ELSE <<>>)
         \o Payloads(Tail(items))

\* the chunks the reads have delivered so far
Received == SubSeq(rs_in.items, 1, Len(rs_in.items) - Len(sr.items))

\* C33: in every state of a run of reportStreamWithContext the sink holds,
\* in receive order, the non-empty contents of the chunks received so far,
\* the one of a chunk whose write has not been made yet excepted; so after
\* the return it holds all of them, the last being the one of the failed
\* write if a write failed, and nothing has been written after a read error.
C33_SinkHoldsPayloadsInOrder ==
    rs_pc # "idle" =>
        /\ rs_pc = "write"
              => ( /\ NonEmptyChunk(rs_chunk)
                   /\ Payloads(Received) = Append(sink.writes, rs_chunk.content) )
        /\ rs_pc # "write" => sink.writes = Payloads(Received)
        /\ (rs_pc = "returned" /\ rs_ret # NilErr /\ rs_ret[1].tag = "write error")
              => ( /\ Len(sink.writes) = sink.failAt
                   /\ sink.writes[Len(sink.writes)] = rs_chunk.content )
        /\ Len(sink.writes) <= Len(rs_in.items)

\* C33 witness: the second write failed after an empty chunk was skipped;
\* the sink holds the two contents
C33_Witness ==
    /\ rs_pc = "returned"
    /\ rs_ret = WriteFailure(WriteErr)
    /\ Len(Received) = 3
    /\ Len(sink.writes) = 2
    /\ sink.writes = Payloads(Received)

(***************************************************************************)
(* The end of the construction loop                                        *)
(***************************************************************************)
\* C34: createOpenAIChatModelWithConfig never reaches the panic after its
\* loop: once it has a configuration, it is in the loop, has returned a
\* client, or has ended on the failure of its last attempt.
C34_PanicUnreachable ==
    /\ cf_pc # "panicked"
    /\ (cf_pc = "fatal" /\ ~cf_cfg.isNil) => Exhausted

====
